---- MODULE Spec2Model ----
(***************************************************************************)
(* ECP5PLL (litex/soc/cores/clock/lattice_ecp5.py): the clock plan of an   *)
(* ECP5 PLL (input frequency, requested outputs, dynamic phase adjustment) *)
(* and the divider search of compute_config.                               *)
(*                                                                         *)
(* Frequencies are integers counting units of 125 kHz (HzA * HzB Hz), so   *)
(* that every range bound of the class is an integer: 3.125e6 Hz = 25,     *)
(* 8e6 = 64, 10e6 = 80, 400e6 = 3200, 800e6 = 6400.  A margin is a pair    *)
(* <<num, den>> standing for the Python float nearest to num/den.          *)
(*                                                                         *)
(* The code computes in Python floats (IEEE-754 binary64).  The model      *)
(* keeps that arithmetic: Float64 values are records [m, e] with a 53-bit  *)
(* mantissa m (a little-endian sequence of 15-bit limbs) and value         *)
(* m * 2^e, and every operation rounds to nearest, ties to even.           *)
(***************************************************************************)
EXTENDS Integers, Sequences, FiniteSets, TLC

(***************************************************************************)
(* Float64 arithmetic                                                      *)
(***************************************************************************)
LimbBits == 15
Base == 2 ^ LimbBits
MantBits == 53

RECURSIVE Limbs(_)
Limbs(n) == IF n = 0 THEN <<>> ELSE <<n % Base>> \o Limbs(n \div Base)

RECURSIVE ToInt(_)
ToInt(a) == IF a = <<>> THEN 0 ELSE Head(a) + Base * ToInt(Tail(a))

Zeros(k) == [i \in 1..k |-> 0]

RECURSIVE Norm(_)
Norm(a) == IF a = <<>> THEN a
           ELSE IF a[Len(a)] = 0 THEN Norm(SubSeq(a, 1, Len(a) - 1)) ELSE a

RECURSIVE MulC(_, _, _)
MulC(a, k, c) == IF a = <<>> THEN Limbs(c)
                 ELSE LET t == Head(a) * k + c
                      IN  <<t % Base>> \o MulC(Tail(a), k, t \div Base)

BMulInt(a, k) == MulC(a, k, 0)

RECURSIVE DivInt(_, _)
DivInt(a, k) == IF a = <<>> THEN [q |-> <<>>, r |-> 0]
                ELSE LET hi == DivInt(Tail(a), k)
                         t  == hi.r * Base + Head(a)
                     IN  [q |-> <<t \div k>> \o hi.q, r |-> t % k]

RECURSIVE GeFrom(_, _, _)
GeFrom(a, b, i) == IF i = 0 THEN TRUE
                   ELSE IF a[i] /= b[i] THEN a[i] > b[i]
                   ELSE GeFrom(a, b, i - 1)

BGe(a, b) == IF Len(a) /= Len(b) THEN Len(a) > Len(b) ELSE GeFrom(a, b, Len(a))

RECURSIVE SubB(_, _, _)
SubB(a, b, br) == IF a = <<>> THEN <<>>
                  ELSE LET y == (IF b = <<>> THEN 0 ELSE Head(b)) + br
                           x == Head(a)
                       IN  <<(x - y) % Base>> \o
                           SubB(Tail(a), IF b = <<>> THEN b ELSE Tail(b), IF x < y THEN 1 ELSE 0)

BSub(a, b) == Norm(SubB(a, b, 0))

RECURSIVE Inc(_)
Inc(a) == IF a = <<>> THEN <<1>>
          ELSE IF Head(a) + 1 < Base THEN <<Head(a) + 1>> \o Tail(a)
          ELSE <<0>> \o Inc(Tail(a))

BitLen(a) == IF a = <<>> THEN 0
             ELSE (Len(a) - 1) * LimbBits
                  + (CHOOSE b \in 1..LimbBits : 2 ^ (b - 1) <= a[Len(a)] /\ a[Len(a)] < 2 ^ b)

Shl(a, s) == Zeros(s \div LimbBits) \o BMulInt(a, 2 ^ (s % LimbBits))

Shr(a, t) == LET k == t \div LimbBits
                 d == DivInt(SubSeq(a, k + 1, Len(a)), 2 ^ (t % LimbBits))
             IN  [q |-> Norm(d.q), s |-> d.r /= 0 \/ \E i \in 1..k : a[i] /= 0]

ZeroF == [m |-> <<>>, e |-> 0]

\* round to nearest, ties to even, of N * 2^e (plus a sticky fraction below N)
Renorm(m, e) == IF BitLen(m) > MantBits THEN [m |-> Norm(DivInt(m, 2).q), e |-> e + 1]
                ELSE [m |-> m, e |-> e]
RoundKept(kept, half, sticky, e) ==
    Renorm(IF half /\ (sticky \/ kept[1] % 2 = 1) THEN Inc(kept) ELSE kept, e)
RoundShifted(sh, e, sticky) ==
    RoundKept(Norm(DivInt(sh.q, 2).q), sh.q[1] % 2 = 1, sticky \/ sh.s, e + 1)
RoundTo(N, e, sticky, L) ==
    IF L <= MantBits THEN [m |-> Shl(N, MantBits - L), e |-> e - (MantBits - L)]
    ELSE RoundShifted(Shr(N, L - (MantBits + 1)), e + L - (MantBits + 1), sticky)
Round(N, e, sticky) == RoundTo(N, e, sticky, BitLen(N))

FromInt(n) == IF n = 0 THEN ZeroF ELSE Round(Limbs(n), 0, FALSE)

FMulInt(a, k) == IF a.m = <<>> \/ k = 0 THEN ZeroF ELSE Round(BMulInt(a.m, k), a.e, FALSE)

FDivInt(a, k) == IF a.m = <<>> THEN ZeroF
                 ELSE LET d == DivInt(Zeros(2) \o a.m, k)
                      IN  Round(Norm(d.q), a.e - 2 * LimbBits, d.r /= 0)

FLe(a, b) == IF a.m = <<>> THEN TRUE
             ELSE IF b.m = <<>> THEN FALSE
             ELSE a.e < b.e \/ (a.e = b.e /\ BGe(b.m, a.m))

FAbsDiff(a, b) ==
    IF a.m = <<>> THEN b ELSE IF b.m = <<>> THEN a
    ELSE LET e  == IF a.e < b.e THEN a.e ELSE b.e
             x  == Shl(a.m, a.e - e)
             y  == Shl(b.m, b.e - e)
             d  == IF BGe(x, y) THEN BSub(x, y) ELSE BSub(y, x)
         IN  IF d = <<>> THEN ZeroF ELSE Round(d, e, FALSE)

Trunc(a) == IF a.m = <<>> \/ -a.e >= MantBits THEN 0
            ELSE IF a.e >= 0 THEN ToInt(Shl(a.m, a.e))
            ELSE ToInt(Shr(a.m, -a.e).q)

\* frequencies are counted in units of 125 kHz = 125 * 1000 Hz
HzA == 125
HzB == 1000
FromFreq(u) == IF u = 0 THEN ZeroF
               ELSE Round(BMulInt(BMulInt(Limbs(u), HzA), HzB), 0, FALSE)
\* fl(a * f) for the integral float f = u units
FMulFreq(a, u) == IF a.m = <<>> \/ u = 0 THEN ZeroF
                  ELSE Round(BMulInt(BMulInt(BMulInt(a.m, u), HzA), HzB), a.e, FALSE)
\* fl(a / (f * k)) for the integral float f = u units and the integer k (f * k is exact)
FDivFreqInt(a, u, k) ==
    IF a.m = <<>> THEN ZeroF
    ELSE LET d1 == DivInt(Zeros(4) \o a.m, u)
             d2 == DivInt(d1.q, HzA)
             d3 == DivInt(d2.q, HzB)
             d4 == DivInt(d3.q, k)
         IN  Round(Norm(d4.q), a.e - 4 * LimbBits,
                   d1.r /= 0 \/ d2.r /= 0 \/ d3.r /= 0 \/ d4.r /= 0)


(***************************************************************************)
(* Class constants (lines 16-23), in units of 125 kHz                      *)
(***************************************************************************)
nclkouts_max    == 4
clki_div_range  == 1..128
clkfb_div_range == 1..128
clko_div_range  == 1..128
clki_freq_min   == 64
clki_freq_max   == 3200
clko_freq_min   == 25
clko_freq_max   == 3200
vco_freq_min    == 3200
vco_freq_max    == 6400
pfd_freq_min    == 80
pfd_freq_max    == 3200

\* clkin_freq = None, and config["clkfb"] = None
NoFreq == 0
NoClkfb == -1

(***************************************************************************)
(* Arguments the callers pass                                              *)
(***************************************************************************)
\* register_clkin(clkin, freq): 7 MHz and 401 MHz are out of range
ClkinFreqs == {56, 200, 256, 3208}
\* create_clkout(cd, freq, phase, margin, with_reset, uses_dpa) with the defaults
\* phase=0, margin=1e-2 and uses_dpa=True (line 51): 100, 300 and 400 MHz; 3 MHz
\* and 401 MHz are out of range.  400 MHz is also asked with uses_dpa=False.
Margins == {<<1, 100>>}
Phases  == {0}
ClkoutFreqs == {24, 800, 2400, 3200, 3208}
ClkoutArgs ==
    [f : ClkoutFreqs, p : Phases, m : Margins, dpa : {TRUE}] \cup
    [f : {3200}, p : Phases, m : Margins, dpa : {FALSE}]

VARIABLES clkin_freq, dpa_en, nclkouts, clkouts, result
vars == <<clkin_freq, dpa_en, nclkouts, clkouts, result>>

\* result: what the last call raised (exc, with the line that raised it) or
\* returned (config; clkofb_div is the value of that local at the return)
NoConfig == [clki_div |-> 0]
Returned(exc) == [exc |-> exc, config |-> NoConfig, clkofb_div |-> 0]

\* __init__ (lines 25-37)
Init == /\ clkin_freq = NoFreq
        /\ dpa_en = FALSE
        /\ nclkouts = 0
        /\ clkouts = [n \in {} |-> 0]
        /\ result = Returned("None")

\* register_clkin (lines 39-49)
register_clkin(is_signal, freq) ==
    IF freq < clki_freq_min \/ freq > clki_freq_max
    THEN /\ result' = Returned("AssertionError@41-42")
         /\ UNCHANGED <<clkin_freq, dpa_en, nclkouts, clkouts>>
    ELSE IF ~is_signal
    THEN /\ result' = Returned("ValueError@47")
         /\ UNCHANGED <<clkin_freq, dpa_en, nclkouts, clkouts>>
    ELSE /\ clkin_freq' = freq
         /\ result' = Returned("None")
         /\ UNCHANGED <<dpa_en, nclkouts, clkouts>>

\* create_clkout without the capacity assert of line 55
create_clkout_unchecked(a) ==
    IF a.f < clko_freq_min \/ a.f > clko_freq_max
    THEN /\ result' = Returned("AssertionError@53-54")
         /\ UNCHANGED <<clkin_freq, dpa_en, nclkouts, clkouts>>
    ELSE /\ clkouts' = (nclkouts :> a) @@ clkouts
         /\ nclkouts' = nclkouts + 1
         /\ result' = Returned("None")
         /\ UNCHANGED <<clkin_freq, dpa_en>>

\* create_clkout (lines 51-62); the reset synchronizer and the comb assignment
\* are netlist statements and not part of the plan
create_clkout(a) ==
    IF a.f < clko_freq_min \/ a.f > clko_freq_max
    THEN /\ result' = Returned("AssertionError@53-54")
         /\ UNCHANGED <<clkin_freq, dpa_en, nclkouts, clkouts>>
    ELSE IF ~(nclkouts < nclkouts_max)
    THEN /\ result' = Returned("AssertionError@55")
         /\ UNCHANGED <<clkin_freq, dpa_en, nclkouts, clkouts>>
    ELSE /\ clkouts' = (nclkouts :> a) @@ clkouts
         /\ nclkouts' = nclkouts + 1
         /\ result' = Returned("None")
         /\ UNCHANGED <<clkin_freq, dpa_en>>

\* expose_dpa (lines 116-132); the phase Signals and self.params are netlist data
\* that compute_config and the registrations never read
expose_dpa ==
    /\ dpa_en' = TRUE
    /\ result' = Returned("None")
    /\ UNCHANGED <<clkin_freq, nclkouts, clkouts>>

(***************************************************************************)
(* compute_config (lines 64-114) and do_finalize (lines 134-161)           *)
(***************************************************************************)
Max(S) == CHOOSE x \in S : \A y \in S : y <= x
Min(S) == CHOOSE x \in S : \A y \in S : x <= y
Abs(x) == IF x < 0 THEN -x ELSE x
CeilDiv(a, b) == (a + b - 1) \div b

\* line 70: pfd_freq_min <= clkin_freq/clki_div <= pfd_freq_max.  The bounds are
\* floats and rounding is monotonic, so the float comparison is the exact one.
PfdInRange(clki_div) ==
    pfd_freq_min * clki_div <= clkin_freq /\ clkin_freq <= pfd_freq_max * clki_div

\* line 77: vco_freq = (clkin_freq/clki_div)*clkfb_div*clkofb_div, as a Float64
vco_freq(clki_div, clkofb_div, clkfb_div) ==
    FMulInt(FMulInt(FDivInt(FromFreq(clkin_freq), clki_div), clkfb_div), clkofb_div)

\* line 81: vco_freq_min <= vco_freq <= vco_freq_max.  The exact value of vco_freq
\* is clkin_freq*clkfb_div*clkofb_div/clki_div; off a bound by at least 1/128 Hz
\* it compares as its float does, and on a bound the float decides.
VcoInRange(clki_div, clkofb_div, clkfb_div) ==
    LET v == clkin_freq * clkfb_div * clkofb_div IN
    IF v = vco_freq_min * clki_div \/ v = vco_freq_max * clki_div
    THEN LET vco == vco_freq(clki_div, clkofb_div, clkfb_div)
         IN  FLe(FromFreq(vco_freq_min), vco) /\ FLe(vco, FromFreq(vco_freq_max))
    ELSE vco_freq_min * clki_div < v /\ v < vco_freq_max * clki_div

\* line 76: the values of clkfb_div in clkfb_div_range that VcoInRange can hold
\* for: outside this interval the exact vco_freq is off the VCO range
ClkfbDivs(clki_div, clkofb_div) ==
    {x \in CeilDiv(vco_freq_min * clki_div, clkin_freq * clkofb_div) ..
           ((vco_freq_max * clki_div) \div (clkin_freq * clkofb_div)) :
        x \in clkfb_div_range}

\* the float a margin <<num, den>> stands for
MarginF(m) == FDivInt(FromInt(m[1]), m[2])

\* lines 86-88 on floats: clk_freq = vco_freq/d; abs(clk_freq - f) <= f*m
OutputValidF(vco, d, f, m) ==
    FLe(FAbsDiff(FDivInt(vco, d), FromFreq(f)), FMulFreq(MarginF(m), f))

\* lines 86-88: the exact values of the two sides, scaled by d*clki_div*den, decide
\* unless they are equal, and then the floats decide.
OutputValid(clki_div, clkofb_div, clkfb_div, d, f, m) ==
    LET v   == clkin_freq * clkfb_div * clkofb_div
        lhs == Abs(v - f * d * clki_div) * m[2]
        rhs == f * m[1] * d * clki_div
    IN  IF lhs = rhs
        THEN OutputValidF(vco_freq(clki_div, clkofb_div, clkfb_div), d, f, m)
        ELSE lhs < rhs

\* line 85: where the loop over d can stop.  vco_freq/d falls as d grows: below
\* d0, the first d with vco_freq/d <= f*(1+m) exactly, the output is above its
\* margin; and when neither d0 nor d0+1 is valid every larger d is below it.
ClkoDivs(clki_div, clkofb_div, clkfb_div, f, m) ==
    IF f = 0 THEN {}
    ELSE LET d0 == CeilDiv(clkin_freq * clkfb_div * clkofb_div * m[2],
                           f * (m[2] + m[1]) * clki_div)
         IN  {d0, d0 + 1} \cap clko_div_range

\* the least and the greatest element of S, none for the empty set
MinOr(S, none) == IF S = {} THEN none ELSE Min(S)
MaxOr(S, none) == IF S = {} THEN none ELSE Max(S)

\* lines 84-97: the first divider in ascending order that brings output n within
\* its margin (the loop breaks there), 0 when there is none (valid stays False)
clko_div(clki_div, clkofb_div, clkfb_div, n) ==
    MinOr({d \in ClkoDivs(clki_div, clkofb_div, clkfb_div, clkouts[n].f, clkouts[n].m) :
              OutputValid(clki_div, clkofb_div, clkfb_div, d, clkouts[n].f, clkouts[n].m)}, 0)

\* lines 79-101: all_valid after the loop over the outputs
all_valid(clki_div, clkofb_div, clkfb_div) ==
    /\ VcoInRange(clki_div, clkofb_div, clkfb_div)
    /\ \A n \in DOMAIN clkouts : clko_div(clki_div, clkofb_div, clkfb_div, n) /= 0

\* lines 67-81: the combinations of the three loops that pass the PFD check and
\* can pass the VCO check, the loop over clki_div taken up to last
combinations(last) ==
    UNION {{<<clki_div, clkofb_div, clkfb_div>> : clkfb_div \in ClkfbDivs(clki_div, clkofb_div)} :
              clki_div \in {i \in clki_div_range : i <= last /\ PfdInRange(i)},
              clkofb_div \in clko_div_range}
\* lines 67-101: the combinations at which all_valid holds
valid_combinations == {c \in combinations(128) : all_valid(c[1], c[2], c[3])}

\* the order in which the three loops visit the combinations
Before(c, w) ==
    \/ c[1] < w[1]
    \/ c[1] = w[1] /\ c[2] < w[2]
    \/ c[1] = w[1] /\ c[2] = w[2] /\ c[3] < w[3]

\* the loops run in ascending order, so line 102 is reached first at the first
\* valid combination in that order
first_valid(valid) == CHOOSE c \in valid : \A b \in valid : b = c \/ Before(c, b)

\* config["clkfb"] were line 95 to drop the test on dpa and self.dpa_en
clkfb_any(clki_div, clkofb_div, clkfb_div) ==
    MaxOr({n \in DOMAIN clkouts : clko_div(clki_div, clkofb_div, clkfb_div, n) = clkofb_div},
          NoClkfb)
\* config["clkfb"] were line 96 to keep the first output it finds
clkfb_lowest(clki_div, clkofb_div, clkfb_div) ==
    MinOr({n \in DOMAIN clkouts :
              /\ clko_div(clki_div, clkofb_div, clkfb_div, n) = clkofb_div
              /\ ~(clkouts[n].dpa /\ dpa_en)}, NoClkfb)

\* lines 82-96: config["clkfb"] after the loop over sorted(self.clkouts.items()):
\* every output whose divider is clkofb_div and that may carry the feedback
\* assigns it, so the last one stays
clkfb(clki_div, clkofb_div, clkfb_div) ==
    MaxOr({n \in DOMAIN clkouts :
              /\ clko_div(clki_div, clkofb_div, clkfb_div, n) = clkofb_div
              /\ ~(clkouts[n].dpa /\ dpa_en)}, NoClkfb)

\* lines 88-92: combination c runs lines 89-91 for output n, which write
\* config["clko{n}_freq"], config["clko{n}_div"] and config["clko{n}_phase"]
writes(c, n) ==
    /\ PfdInRange(c[1])
    /\ VcoInRange(c[1], c[2], c[3])
    /\ clko_div(c[1], c[2], c[3], n) /= 0

\* the last combination of S in the order of the loops
Last(S, none) == IF S = {} THEN none ELSE CHOOSE c \in S : \A b \in S : b = c \/ Before(b, c)

\* the entries of output n were lines 89-91 to keep what an earlier combination wrote
first_write(n, w) ==
    CHOOSE c \in {c \in combinations(w[1]) : (c = w \/ Before(c, w)) /\ writes(c, n)} :
        \A b \in combinations(c[1]) : Before(b, c) => ~writes(b, n)

\* config is one dict for the whole search (line 65), so the entries of output n
\* at the return are those of the last combination, up to the returning one w,
\* that wrote them; <<0, 0, 0>> when none did
last_write(n, w) ==
    IF writes(w, n) THEN w
    ELSE Last({c \in combinations(w[1]) : Before(c, w) /\ writes(c, n)}, <<0, 0, 0>>)

\* line 109: int((vco_freq*clki_div)/(self.clkin_freq*clkfb_div))
phantom_div(w) ==
    Trunc(FDivFreqInt(FMulInt(vco_freq(w[1], w[2], w[3]), w[1]), clkin_freq, w[3]))

\* the entries of output n (lines 89-91), written at combination c
clko_entry(n, c) ==
    IF c = <<0, 0, 0>> THEN [written |-> FALSE]
    ELSE [written |-> TRUE,
          freq    |-> FDivInt(vco_freq(c[1], c[2], c[3]), clko_div(c[1], c[2], c[3], n)),
          div     |-> clko_div(c[1], c[2], c[3], n),
          phase   |-> clkouts[n].p]

\* line 108: self.clkouts[self.nclkouts] = (Signal(), 0, 0, 0, 0)
PhantomClkout == [f |-> 0, p |-> 0, m |-> <<0, 1>>, dpa |-> FALSE]
\* line 109: the only entry of the feedback output is its divider
phantom_entry(w) == [written |-> FALSE, div |-> phantom_div(w)]

\* the dict returned at line 113 from the first valid combination w, fb being
\* config["clkfb"] there
returned_config(w, fb) ==
    [exc |-> "None",
     config |->
         [clki_div  |-> w[1],
          clkfb     |-> IF fb = NoClkfb THEN nclkouts ELSE fb,
          clkfb_div |-> w[3],
          vco       |-> vco_freq(w[1], w[2], w[3]),
          clko      |-> [n \in DOMAIN clkouts \cup
                               (IF fb = NoClkfb THEN {nclkouts} ELSE {}) |->
                             IF fb = NoClkfb /\ n = nclkouts THEN phantom_entry(w)
                             ELSE clko_entry(n, last_write(n, w))]],
     clkofb_div |-> w[2]]

\* lines 102-113 at the first valid combination w; finalize is TRUE when the
\* caller is do_finalize, which uses the dict for self.params (lines 137-161,
\* netlist data) and returns None
return_config(w, fb, finalize) ==
    IF fb = NoClkfb /\ ~(nclkouts < nclkouts_max)
    THEN /\ result' = Returned("AssertionError@106")
         /\ UNCHANGED <<clkin_freq, dpa_en, nclkouts, clkouts>>
    ELSE /\ result' = IF finalize THEN Returned("None") ELSE returned_config(w, fb)
         /\ clkouts' = IF fb = NoClkfb THEN (nclkouts :> PhantomClkout) @@ clkouts
                       ELSE clkouts
         /\ UNCHANGED <<clkin_freq, dpa_en, nclkouts>>

found(w, finalize) == return_config(w, clkfb(w[1], w[2], w[3]), finalize)

\* lines 102-114 once the loops have run, valid being the combinations that are all_valid
search(valid, finalize) ==
    IF valid = {}
    THEN /\ result' = Returned("ValueError@114: No PLL config found")
         /\ UNCHANGED <<clkin_freq, dpa_en, nclkouts, clkouts>>
    ELSE found(first_valid(valid), finalize)

\* compute_config (lines 64-114); with clkin_freq None line 70 raises
compute_config ==
    IF clkin_freq = NoFreq
    THEN /\ result' = Returned("TypeError@70")
         /\ UNCHANGED <<clkin_freq, dpa_en, nclkouts, clkouts>>
    ELSE search(valid_combinations, FALSE)

\* do_finalize (lines 134-161): config = self.compute_config() at line 135, whose
\* exceptions pass through and whose feedback output stays in self.clkouts; the
\* rest reads config and self.clkouts into self.params and the netlist and
\* returns None
do_finalize ==
    IF clkin_freq = NoFreq
    THEN /\ result' = Returned("TypeError@70")
         /\ UNCHANGED <<clkin_freq, dpa_en, nclkouts, clkouts>>
    ELSE search(valid_combinations, TRUE)

Next ==
    \/ \E is_signal \in BOOLEAN, freq \in ClkinFreqs : register_clkin(is_signal, freq)
    \/ \E a \in ClkoutArgs : create_clkout(a)
    \/ expose_dpa
    \/ compute_config
    \/ do_finalize

Spec == Init /\ [][Next]_vars
(***************************************************************************)
(* Properties                                                              *)
(***************************************************************************)
\* the slots of the outputs registered with create_clkout
Registered == 0 .. nclkouts - 1
\* the last call was compute_config and it returned a configuration
Solved == result.config /= NoConfig
\* the last call was compute_config and it raised at line 106 or at line 114
Failed == result.exc \in {"AssertionError@106", "ValueError@114: No PLL config found"}
\* the plan is as registration left it: no feedback output was added by a solve
Unsolved == clkin_freq /= NoFreq /\ DOMAIN clkouts = Registered
\* the registered outputs whose recorded divider is clkofb_div of the returning
\* combination and that may carry the feedback
Candidates ==
    {n \in Registered : /\ result.config.clko[n].div = result.clkofb_div
                        /\ ~(clkouts[n].dpa /\ dpa_en)}

\* C1: in every returned configuration each registered output n has its three
\* entries, its recorded frequency is the returned vco divided by its recorded
\* divider, and that frequency is within the margin m of the target f:
\* |vco/d_n - f| <= f*m, in the floats of the code
C1_OutputsWithinMargin ==
    Solved =>
        \A n \in Registered :
            /\ result.config.clko[n].written
            /\ result.config.clko[n].div \in clko_div_range
            /\ result.config.clko[n].freq =
                   FDivInt(result.config.vco, result.config.clko[n].div)
            /\ FLe(FAbsDiff(result.config.clko[n].freq, FromFreq(clkouts[n].f)),
                   FMulFreq(MarginF(clkouts[n].m), clkouts[n].f))
\* a configuration was returned after a rejected combination of the same
\* clki_div and clkofb_div had written another divider for a registered output
C1_Witness ==
    /\ Solved
    /\ \E n \in Registered :
           \E x \in clkfb_div_range :
               /\ x < result.config.clkfb_div
               /\ writes(<<result.config.clki_div, result.clkofb_div, x>>, n)
               /\ clko_div(result.config.clki_div, result.clkofb_div, x, n)
                      /= result.config.clko[n].div

\* C2: in every returned configuration clki_div, clkfb_div and the divider of
\* every output slot, the feedback slot included, are in 1..128, the PFD
\* frequency clkin_freq/clki_div is in [10 MHz, 400 MHz] and vco is in
\* [400 MHz, 800 MHz]
C2_DividersAndFrequenciesInRange ==
    Solved =>
        /\ result.config.clki_div \in clki_div_range
        /\ result.config.clkfb_div \in clkfb_div_range
        /\ \A n \in DOMAIN result.config.clko : result.config.clko[n].div \in clko_div_range
        /\ PfdInRange(result.config.clki_div)
        /\ FLe(FromFreq(vco_freq_min), result.config.vco)
        /\ FLe(result.config.vco, FromFreq(vco_freq_max))

\* C3: compute_config called right after a compute_config that returned a
\* configuration returns again, and returns the same configuration
C3_SecondSolveReturnsSameConfig ==
    [][Solved /\ compute_config =>
           result'.exc = "None" /\ result'.config = result.config]_vars

\* C4: when compute_config fails on a plan as registration left it, the plan has
\* no valid assignment: no clki_div, clkfb_div and feedback divider D in 1..128
\* with PFD and VCO in range at vco = clkin_freq/clki_div*clkfb_div*D, a divider
\* in 1..128 within the margin for every output, and a feedback source that is a
\* free slot or a registered output without dynamic phase adjustment that is
\* within its margin at the divider D
C4_SolverFindsExistingAssignment ==
    (Unsolved /\ Failed) =>
        ~\E i \in clki_div_range, D \in clko_div_range, x \in clkfb_div_range :
            /\ PfdInRange(i)
            /\ all_valid(i, D, x)
            /\ \/ nclkouts < nclkouts_max
               \/ \E n \in Registered :
                      /\ ~(clkouts[n].dpa /\ dpa_en)
                      /\ OutputValid(i, D, x, D, clkouts[n].f, clkouts[n].m)

\* C5: when no combination passes the PFD check, the VCO check, the margin check
\* of every output and the feedback requirement (an output that can carry the
\* feedback, or a free slot), compute_config ends with the ValueError
\* "No PLL config found", with no other error and with no configuration
C5_ExhaustedSearchRaisesNoConfigFound ==
    (/\ Unsolved
     /\ Solved \/ Failed
     /\ ~\E i \in clki_div_range, o \in clko_div_range, x \in clkfb_div_range :
            /\ PfdInRange(i)
            /\ all_valid(i, o, x)
            /\ clkfb(i, o, x) /= NoClkfb \/ nclkouts < nclkouts_max)
    => result.exc = "ValueError@114: No PLL config found"

\* C6: the output count never exceeds 4; an in-range create_clkout with fewer
\* than 4 outputs registered succeeds and stores its output in the slot whose
\* index is the count before the call, keeping the slots below it; with 4
\* outputs registered it fails with the assert of line 55 and changes neither
\* the count nor any entry
C6_CapacityBoundary ==
    [][/\ nclkouts' <= nclkouts_max
       /\ nclkouts' /= nclkouts =>
              /\ nclkouts < nclkouts_max
              /\ nclkouts' = nclkouts + 1
              /\ result'.exc = "None"
              /\ nclkouts \in DOMAIN clkouts'
              /\ \A n \in Registered : clkouts'[n] = clkouts[n]
       /\ result'.exc = "AssertionError@55" =>
              nclkouts = nclkouts_max /\ UNCHANGED <<nclkouts, clkouts>>
       /\ \A a \in ClkoutArgs :
              (a.f >= clko_freq_min /\ a.f <= clko_freq_max /\ create_clkout(a)) =>
                  IF nclkouts < nclkouts_max
                  THEN result'.exc = "None" /\ clkouts'[nclkouts] = a
                  ELSE result'.exc = "AssertionError@55"]_vars
\* four outputs sit in the slots 0..3 and a fifth create_clkout has just failed
C6_Witness ==
    /\ nclkouts = nclkouts_max
    /\ result.exc = "AssertionError@55"
    /\ \A n \in 0 .. 3 : n \in DOMAIN clkouts /\ clkouts[n] \in ClkoutArgs

\* C7: with dynamic phase adjustment exposed, the feedback source of a returned
\* configuration is a registered output with uses_dpa False or the feedback
\* output that the solve added, never a registered output with uses_dpa True
C7_FeedbackNeverDpaOutput ==
    (dpa_en /\ Solved) =>
        \/ result.config.clkfb \in Registered /\ ~clkouts[result.config.clkfb].dpa
        \/ result.config.clkfb = nclkouts /\ clkouts[nclkouts] = PhantomClkout
\* dynamic phase adjustment is exposed and a registered output with uses_dpa True
\* has the divider clkofb_div of the returned configuration
C7_Witness ==
    /\ dpa_en
    /\ Solved
    /\ \E n \in Registered :
           clkouts[n].dpa /\ result.config.clko[n].div = result.clkofb_div

\* C8: with 4 outputs registered, when some combination brings every output
\* within its margin and has an output that can carry the feedback,
\* compute_config returns a configuration: a combination without such an
\* output is passed over and the search goes on
C8_FullPlanKeepsSearching ==
    (/\ Unsolved
     /\ nclkouts = nclkouts_max
     /\ Solved \/ Failed
     /\ \E i \in clki_div_range, o \in clko_div_range, x \in clkfb_div_range :
            PfdInRange(i) /\ all_valid(i, o, x) /\ clkfb(i, o, x) /= NoClkfb)
    => Solved

\* C9, as the code has it: when several registered outputs have the divider
\* clkofb_div and may carry the feedback, the feedback source of the returned
\* configuration is the one with the highest slot index
C9_HighestCandidateIsFeedback ==
    (Solved /\ Candidates /= {}) => result.config.clkfb = Max(Candidates)
\* C9, as the specification has it: the one with the lowest slot index
C9_LowestCandidateIsFeedback ==
    (Solved /\ Candidates /= {}) => result.config.clkfb = Min(Candidates)
\* a configuration was returned with two outputs or more to choose from
C9_Witness == Solved /\ Cardinality(Candidates) >= 2

\* C10: every returned configuration has a feedback source in 0..3 that is a
\* slot of self.clkouts with a divider in the configuration, and that divider is
\* clkofb_div of the returning combination
C10_FeedbackLoopConsistent ==
    Solved =>
        /\ result.config.clkfb \in 0 .. nclkouts_max - 1
        /\ result.config.clkfb \in DOMAIN clkouts
        /\ result.config.clkfb \in DOMAIN result.config.clko
        /\ result.config.clko[result.config.clkfb].div = result.clkofb_div
====
